---- MODULE Spec2Model ----
(***************************************************************************)
(* Model of the Locci Farm queue-driven dispatch and alerting engine       *)
(* (server.js): five Bull queues, the webhook triggers that seed them, the *)
(* named job processors with their threshold rules, the notification       *)
(* formatter sendTaskNotification and the send-sms processor.              *)
(*                                                                         *)
(* JavaScript values are tagged records so that the dynamic operators the  *)
(* code relies on (||, <, ?., template interpolation) can be computed as   *)
(* the language computes them.  Strings are sequences of text tokens; a    *)
(* string that the code passes to String.replace is split at the replaced  *)
(* character, so that replace acts on it as it does on characters.         *)
(* Simulated readings (Math.random) are drawn from small sets of integers. *)
(***************************************************************************)
EXTENDS Integers, Sequences, FiniteSets, TLC

VARIABLES env, clock, waiting, active, counts, added, http,
          fKind, fDetails, fOuts

vars == <<env, clock, waiting, active, counts, added, http,
          fKind, fDetails, fOuts>>

engineVars == <<env, waiting, active, counts, added, http>>
fmtVars == <<fKind, fDetails, fOuts>>

----------------------------------------------------------------------------
(* Bounds                                                                  *)

\* total number of jobs ever enqueued, over all queues
MaxJobs == 7
\* number of unfinished jobs above which no status request arrives
MaxBacklog == 1
\* largest value of the wall clock (one unit per distinguishable time text)
MaxClock == 1
\* number of times the formatter is applied to one input
MaxRenders == 2
\* number of job executions that the queue store lets down
MaxFailures == 1

----------------------------------------------------------------------------
(* JavaScript values                                                       *)

Undef == [t |-> "undefined"]
NaN == [t |-> "NaN"]
N(n) == [t |-> "number", v |-> n]
S(toks) == [t |-> "string", v |-> toks]
B(b) == [t |-> "boolean", v |-> b]
Arr(seq) == [t |-> "array", v |-> seq]

\* ToBoolean
Truthy(x) ==
  CASE x.t = "undefined" -> FALSE
    [] x.t = "NaN" -> FALSE
    [] x.t = "number" -> x.v # 0
    [] x.t = "string" -> x.v # <<>>
    [] x.t = "boolean" -> x.v
    [] OTHER -> TRUE

\* a || b
JsOr(a, b) == IF Truthy(a) THEN a ELSE b

\* a < b on numbers (false when either side is NaN)
JsLt(a, b) == IF a.t = "number" /\ b.t = "number" THEN B(a.v < b.v) ELSE B(FALSE)

\* a > b on numbers (false when either side is NaN)
JsGt(a, b) == IF a.t = "number" /\ b.t = "number" THEN B(a.v > b.v) ELSE B(FALSE)

\* parseFloat of an environment entry: an unset entry parses to NaN, a set
\* entry is represented by the number its text parses to
parseFloat(x) == IF x.t = "number" THEN x ELSE NaN

\* obj.key, undefined when the key is absent
Get(obj, key) == IF key \in DOMAIN obj THEN obj[key] ELSE Undef

\* `${x}` : the text a value interpolates to in a template literal
Interp(x) ==
  CASE x.t = "string" -> x.v
    [] x.t = "number" -> <<ToString(x.v)>>
    [] x.t = "boolean" -> IF x.v THEN <<"true">> ELSE <<"false">>
    [] x.t = "NaN" -> <<"NaN">>
    [] OTHER -> <<"undefined">>

\* Number.prototype.toFixed(d) on an integer-valued reading
toFixed(n, d) == IF d = 0 THEN <<ToString(n)>> ELSE <<ToString(n) \o ".0">>

\* index of the first occurrence of token c in s, 0 when there is none
RECURSIVE IndexFrom(_, _, _)
IndexFrom(s, c, i) ==
  IF i > Len(s) THEN 0
  ELSE IF s[i] = c THEN i ELSE IndexFrom(s, c, i + 1)

\* String.prototype.replace(pattern, by) with a string pattern: only the
\* first occurrence is replaced
replace(s, c, by) ==
  LET i == IndexFrom(s, c, 1) IN
  IF i = 0 THEN s
  ELSE SubSeq(s, 1, i - 1) \o <<by>> \o SubSeq(s, i + 1, Len(s))

\* Date.prototype.toLocaleTimeString() of the clock value
toLocaleTimeString(now) == <<"T" \o ToString(now)>>

\* s contains the text p (as a contiguous run of tokens)
Contains(s, p) ==
  \E i \in 1..(Len(s) - Len(p) + 1) : SubSeq(s, i, i + Len(p) - 1) = p

----------------------------------------------------------------------------
(* Notification formatter: the switch of sendTaskNotification.  The emoji  *)
(* that opens each template is written as its name in parentheses.         *)

KnownKinds == {"sensor_data_collected", "irrigation_started",
               "irrigation_completed", "market_price_alert",
               "maintenance_required", "equipment_failure",
               "weather_warning", "task_completed", "system_status"}

Rendered(toks) == [threw |-> FALSE, message |-> toks]
\* a TypeError raised while the template is evaluated
TypeError(what) == [threw |-> TRUE, error |-> <<"TypeError: ", what>>]

\* details.moistureLevel?.toFixed(1) : undefined stays undefined, a number is
\* formatted, any other value has no toFixed method
OptFixed1(x) ==
  CASE x.t = "undefined" -> Rendered(<<"undefined">>)
    [] x.t = "number" -> Rendered(toFixed(x.v, 1))
    [] OTHER -> TypeError("details.moistureLevel.toFixed is not a function")

\* details.reason.replace("_", " ") : fails unless reason is a string
ReasonText(x) ==
  IF x.t = "string" THEN Rendered(replace(x.v, "_", " "))
  ELSE TypeError("Cannot read properties of undefined (reading 'replace')")

messageText(taskType, details, now) ==
  CASE taskType = "sensor_data_collected" ->
         LET soil == OptFixed1(Get(details, "moistureLevel")) IN
         IF soil.threw THEN soil
         ELSE Rendered(<<"(seedling) FARM UPDATE: Sensor data collected at ">>
                \o toLocaleTimeString(now) \o <<". Soil: ">> \o soil.message
                \o <<"%, Weather: ">> \o Interp(Get(details, "temperature"))
                \o <<" C">>)
    [] taskType = "irrigation_started" ->
         LET reason == ReasonText(Get(details, "reason")) IN
         IF reason.threw THEN reason
         ELSE Rendered(<<"(droplet) IRRIGATION ALERT: Auto-irrigation started in ">>
                \o Interp(Get(details, "zone")) \o <<". Reason: ">>
                \o reason.message \o <<". Duration: ">>
                \o Interp(JsOr(Get(details, "duration"), S(<<"30 min">>))))
    [] taskType = "irrigation_completed" ->
         Rendered(<<"(check) IRRIGATION COMPLETE: ">>
           \o Interp(Get(details, "zone"))
           \o <<" watering finished. Soil moisture improved from ">>
           \o Interp(Get(details, "beforeLevel")) \o <<"% to ">>
           \o Interp(Get(details, "afterLevel")) \o <<"%">>)
    [] taskType = "market_price_alert" ->
         Rendered(<<"(chart) MARKET ALERT: ">> \o Interp(Get(details, "crop"))
           \o <<" price ">>
           \o (IF Get(details, "trend") = S(<<"up">>)
               THEN <<"increased">> ELSE <<"decreased">>)
           \o <<" to ">> \o Interp(Get(details, "price")) \o <<" KES/kg in ">>
           \o Interp(Get(details, "market")) \o <<". ">>
           \o Interp(Get(details, "recommendation")))
    [] taskType = "maintenance_required" ->
         Rendered(<<"(wrench) MAINTENANCE ALERT: ">>
           \o Interp(Get(details, "equipment"))
           \o <<" requires attention. Health: ">>
           \o Interp(Get(details, "health"))
           \o <<"%. Schedule maintenance soon to avoid breakdown.">>)
    [] taskType = "equipment_failure" ->
         Rendered(<<"(siren) URGENT: ">> \o Interp(Get(details, "equipment"))
           \o <<" has failed! Immediate attention required. Contact technician: +254700123456">>)
    [] taskType = "weather_warning" ->
         Rendered(<<"(weather) WEATHER WARNING: ">>
           \o Interp(Get(details, "warning"))
           \o <<" expected. Take protective measures for crops. Updated forecast: ">>
           \o Interp(Get(details, "forecast")))
    [] taskType = "task_completed" ->
         Rendered(<<"(check) TASK COMPLETE: ">>
           \o Interp(Get(details, "taskName"))
           \o <<" finished successfully at ">> \o toLocaleTimeString(now)
           \o <<". Status: ">> \o Interp(Get(details, "status")))
    [] taskType = "system_status" ->
         Rendered(<<"(bars) SYSTEM UPDATE: ">>
           \o Interp(Get(details, "message")) \o <<". All systems ">>
           \o (IF Truthy(Get(details, "systemsHealthy"))
               THEN <<"operating normally">> ELSE <<"require attention">>)
           \o <<".">>)
    [] OTHER ->
         Rendered(Interp(JsOr(Get(details, "customMessage"),
                              S(<<"(phone) Farm notification: ", taskType>>))))

\* a faulty variant of farmSuffix that always names the default farm
farmSuffixDefaultOnly(details) ==
  <<" [Farm: ", "farm-001", "]">>

\* message += ` [Farm: ${details.farmId || "farm-001"}]`
farmSuffix(details) ==
  <<" [Farm: ">> \o Interp(JsOr(Get(details, "farmId"), S(<<"farm-001">>)))
     \o <<"]">>

\* a faulty variant of renderNotification that also appends the time, as the
\* comment "Add farm ID and timestamp" announces
renderNotificationStamped(taskType, details, now) ==
  LET body == messageText(taskType, details, now) IN
  IF body.threw THEN body
  ELSE Rendered(body.message \o farmSuffix(details)
                  \o <<" at ">> \o toLocaleTimeString(now))

\* the message sendTaskNotification builds before it enqueues: the template
\* followed by the farm suffix, or the error the template raised
renderNotification(taskType, details, now) ==
  LET body == messageText(taskType, details, now) IN
  IF body.threw THEN body
  ELSE Rendered(body.message \o farmSuffix(details))

----------------------------------------------------------------------------
(* Queues, configuration and simulated readings                            *)

Queues == {"iot-sensors", "irrigation", "market-data", "maintenance",
           "notifications"}

\* Bull starts one worker loop per queue.process(name, handler) call, so a
\* queue runs as many jobs at once as it has named processors
Concurrency(q) ==
  CASE q = "iot-sensors" -> 3
    [] q = "irrigation" -> 2
    [] OTHER -> 1

\* process.env: each threshold entry is unset or holds the text of a number
EnvKeys == {"SOIL_MOISTURE_LOW_THRESHOLD", "TEMPERATURE_HIGH_THRESHOLD",
            "HUMIDITY_LOW_THRESHOLD", "MAIZE_PRICE_ALERT_THRESHOLD",
            "BEANS_PRICE_ALERT_THRESHOLD", "TOMATOES_PRICE_ALERT_THRESHOLD",
            "FARMER_PHONE"}

NoOverrides == [k \in EnvKeys |-> Undef]

\* the configurations explored: nothing configured, and a configuration that
\* overrides the thresholds (the beans threshold with the text "0")
EnvConfigs ==
  { NoOverrides,
    [NoOverrides EXCEPT !["SOIL_MOISTURE_LOW_THRESHOLD"] = N(50),
                        !["TEMPERATURE_HIGH_THRESHOLD"] = N(25),
                        !["HUMIDITY_LOW_THRESHOLD"] = N(60),
                        !["MAIZE_PRICE_ALERT_THRESHOLD"] = N(60),
                        !["BEANS_PRICE_ALERT_THRESHOLD"] = N(0),
                        !["FARMER_PHONE"] = S(<<"+254700000001">>)] }

\* Math.random() * 100 in the soil-moisture collector
MoistureLevels == {0, 10, 30}
\* Math.random() * 15 + 20 and Math.random() * 40 + 40 in the soil-moisture
\* collector, where no decision depends on them
SoilTemperatures == {27}
SoilHumidities == {55}
\* Math.random() * 15 + 20 in the weather collector
Temperatures == {20, 34}
\* Math.random() * 40 + 40 in the weather collector
Humidities == {40, 79}
\* Math.random() * 100 for leafHealth and for pestActivity, sampled together:
\* neither warning is due, or both are
CropReadings == {[leafHealth |-> 60, pestActivity |-> 70],
                 [leafHealth |-> 59, pestActivity |-> 71]}
\* Math.random() * 40 + 20 and Math.random() * 30 + 20 in start-irrigation
SimulatedBefore == {20, 59}
Improvements == {20, 49}
\* Math.random() * 100 per zone in assess-irrigation-needs
ZoneReadings == {34, 35}
\* (Math.random() - 0.5) * 30 per crop
PriceNoise == {-15, 10, 11}
\* Math.random() * 100 per equipment item
Healths == {19, 20, 39, 40}

farmerPhoneDefault == S(<<"+254717135176">>)

\* a job as the queue stores it; parent names what enqueued it
Job(q, id, name, data, parent) ==
  [queue |-> q, id |-> id, name |-> name, data |-> data, parent |-> parent]

TotalAdded == added["iot-sensors"] + added["irrigation"] + added["market-data"]
              + added["maintenance"] + added["notifications"]

\* queue.add(name, data) on queue q: the job takes the next id of its queue
\* and joins the end of the waiting list
QueueAdd(w, a, q, name, data, parent) ==
  [waiting |-> [w EXCEPT ![q] = Append(@, Job(q, a[q] + 1, name, data, parent))],
   added |-> [a EXCEPT ![q] = @ + 1]]

\* per-state counts of one queue, as getJobCounts reports them
getJobCounts(q) ==
  [waiting |-> Len(waiting[q]), active |-> Cardinality(active[q]),
   completed |-> counts[q].completed, failed |-> counts[q].failed]

\* sum of f[x] over the finite set dom
RECURSIVE Sum(_, _)
Sum(f, dom) ==
  IF dom = {} THEN 0
  ELSE LET x == CHOOSE y \in dom : TRUE IN f[x] + Sum(f, dom \ {x})

\* jobs that are waiting or active
Backlog ==
  Sum([q \in Queues |-> Len(waiting[q]) + Cardinality(active[q])], Queues)

FmtIdle == /\ fKind = "none" /\ fDetails = <<>> /\ fOuts = <<>>

Init ==
  /\ env \in EnvConfigs
  /\ clock = 0
  /\ waiting = [q \in Queues |-> <<>>]
  /\ active = [q \in Queues |-> {}]
  /\ counts = [q \in Queues |-> [completed |-> 0, failed |-> 0]]
  /\ added = [q \in Queues |-> 0]
  /\ http = [code |-> 0]
  /\ FmtIdle

\* time passes
Tick ==
  /\ clock < MaxClock
  /\ clock' = clock + 1
  /\ UNCHANGED <<engineVars, fmtVars>>

----------------------------------------------------------------------------
(* sendTaskNotification and the webhook triggers.  The timestamp field of  *)
(* a payload is never read and is left out of the payloads.                *)

Webhook == [queue |-> "webhook", id |-> 0]

\* a faulty variant of sendTaskNotification that enqueues the send-sms job
\* twice
sendTaskNotificationTwice(w, a, taskType, details, parent, now) ==
  LET farmerPhone == JsOr(env["FARMER_PHONE"], farmerPhoneDefault)
      r == renderNotification(taskType, details, now)
      sms == [phoneNumber |-> farmerPhone, message |-> S(r.message),
              type |-> S(<<taskType>>), data |-> details]
      once == QueueAdd(w, a, "notifications", "send-sms", sms, parent)
  IN IF r.threw
     THEN [threw |-> TRUE, error |-> r.error, waiting |-> w, added |-> a]
     ELSE [threw |-> FALSE, error |-> <<>>] @@
          QueueAdd(once.waiting, once.added, "notifications", "send-sms", sms,
                   parent)

\* render the message, then enqueue one send-sms job that carries it; when
\* the template raises, nothing is enqueued and the error propagates
sendTaskNotification(w, a, taskType, details, parent, now) ==
  LET farmerPhone == JsOr(env["FARMER_PHONE"], farmerPhoneDefault)
      r == renderNotification(taskType, details, now)
  IN IF r.threw
     THEN [threw |-> TRUE, error |-> r.error, waiting |-> w, added |-> a]
     ELSE [threw |-> FALSE, error |-> <<>>] @@
          QueueAdd(w, a, "notifications", "send-sms",
                   [phoneNumber |-> farmerPhone, message |-> S(r.message),
                    type |-> S(<<taskType>>), data |-> details], parent)

farm001 == S(<<"farm-001">>)

\* a request that enqueues n jobs is accepted while the job budget allows it
Accepts(n) == TotalAdded + n <= MaxJobs

\* a status request can arrive while jobs are unfinished
Polled(n) ==
  /\ Backlog <= MaxBacklog
  /\ Accepts(n)

\* the scheduler calls a webhook every 120 or 300 seconds
\* (setupScheduledTasks) and a job lasts about two seconds: a webhook call
\* arrives when the jobs of the calls before it are finished
Scheduled(n) ==
  /\ Backlog = 0
  /\ Accepts(n)

\* a faulty variant of CollectSensorData that enqueues the weather job before
\* the soil-moisture job
CollectSensorDataReordered ==
  /\ Scheduled(3)
  /\ LET a1 == QueueAdd(waiting, added, "iot-sensors", "collect-weather-data",
                 [farmId |-> farm001, sensorType |-> S(<<"weather">>)], Webhook)
         a2 == QueueAdd(a1.waiting, a1.added, "iot-sensors",
                 "collect-soil-moisture",
                 [farmId |-> farm001, sensorType |-> S(<<"soil_moisture">>)],
                 Webhook)
         a3 == QueueAdd(a2.waiting, a2.added, "iot-sensors",
                 "collect-crop-health",
                 [farmId |-> farm001, sensorType |-> S(<<"crop_health">>)],
                 Webhook)
     IN /\ waiting' = a3.waiting
        /\ added' = a3.added
  /\ http' = [code |-> 200]
  /\ UNCHANGED <<env, clock, active, counts, fmtVars>>

\* POST /webhooks/collect-sensor-data
CollectSensorData ==
  /\ Scheduled(3)
  /\ LET a1 == QueueAdd(waiting, added, "iot-sensors", "collect-soil-moisture",
                 [farmId |-> farm001, sensorType |-> S(<<"soil_moisture">>)],
                 Webhook)
         a2 == QueueAdd(a1.waiting, a1.added, "iot-sensors",
                 "collect-weather-data",
                 [farmId |-> farm001, sensorType |-> S(<<"weather">>)], Webhook)
         a3 == QueueAdd(a2.waiting, a2.added, "iot-sensors",
                 "collect-crop-health",
                 [farmId |-> farm001, sensorType |-> S(<<"crop_health">>)],
                 Webhook)
     IN /\ waiting' = a3.waiting
        /\ added' = a3.added
  /\ http' = [code |-> 200]
  /\ UNCHANGED <<env, clock, active, counts, fmtVars>>

\* POST /webhooks/irrigation-check
IrrigationCheck ==
  /\ Scheduled(1)
  /\ LET a1 == QueueAdd(waiting, added, "irrigation", "assess-irrigation-needs",
                 [farmId |-> farm001,
                  zones |-> Arr(<<S(<<"zone-a">>), S(<<"zone-b">>),
                                  S(<<"zone-c">>)>>)], Webhook)
     IN /\ waiting' = a1.waiting
        /\ added' = a1.added
  /\ http' = [code |-> 200]
  /\ UNCHANGED <<env, clock, active, counts, fmtVars>>

\* POST /webhooks/market-prices
MarketPrices ==
  /\ Scheduled(1)
  /\ LET a1 == QueueAdd(waiting, added, "market-data", "fetch-market-prices",
                 [crops |-> Arr(<<S(<<"maize">>), S(<<"beans">>),
                                  S(<<"tomatoes">>)>>),
                  markets |-> Arr(<<S(<<"nairobi">>), S(<<"mombasa">>),
                                    S(<<"kisumu">>)>>)], Webhook)
     IN /\ waiting' = a1.waiting
        /\ added' = a1.added
  /\ http' = [code |-> 200]
  /\ UNCHANGED <<env, clock, active, counts, fmtVars>>

\* POST /webhooks/maintenance-check
MaintenanceCheck ==
  /\ Scheduled(1)
  /\ LET a1 == QueueAdd(waiting, added, "maintenance", "check-equipment-status",
                 [farmId |-> farm001,
                  equipment |-> Arr(<<S(<<"irrigation", "-", "pumps">>),
                                      S(<<"sensors">>), S(<<"drones">>)>>)],
                 Webhook)
     IN /\ waiting' = a1.waiting
        /\ added' = a1.added
  /\ http' = [code |-> 200]
  /\ UNCHANGED <<env, clock, active, counts, fmtVars>>

\* request bodies of the manual SMS test: nothing supplied; a message and a
\* type supplied; everything supplied; and a body whose phoneNumber is a
\* number instead of a string
TestSmsBodies ==
  { [message |-> Undef, phoneNumber |-> Undef, type |-> Undef],
    [message |-> S(<<"hello">>), phoneNumber |-> Undef,
     type |-> S(<<"promo">>)],
    [message |-> S(<<"rain at noon">>), phoneNumber |-> S(<<"+254700000002">>),
     type |-> S(<<"advisory">>)],
    [message |-> Undef, phoneNumber |-> N(12345), type |-> Undef] }

\* a faulty variant of TestSmsRequest that always sends the default message
TestSmsRequestFixedMessage(body) ==
  /\ Scheduled(1)
  /\ LET a1 == QueueAdd(waiting, added, "notifications", "send-sms",
                 [phoneNumber |-> JsOr(body.phoneNumber,
                                    JsOr(env["FARMER_PHONE"],
                                         farmerPhoneDefault)),
                  message |->
                    S(<<"(test tube) Test SMS from Locci Farm IoT system - all systems operational!">>),
                  type |-> JsOr(body.type, S(<<"test">>))], Webhook)
     IN /\ waiting' = a1.waiting
        /\ added' = a1.added
  /\ http' = [code |-> 200]
  /\ UNCHANGED <<env, clock, active, counts, fmtVars>>

\* the handler of POST /webhooks/test-sms for one request body: the body is
\* destructured and used as it is, nothing in it is inspected
TestSmsRequest(body) ==
  /\ Scheduled(1)
  /\ LET a1 == QueueAdd(waiting, added, "notifications", "send-sms",
                 [phoneNumber |-> JsOr(body.phoneNumber,
                                    JsOr(env["FARMER_PHONE"],
                                         farmerPhoneDefault)),
                  message |-> JsOr(body.message,
                    S(<<"(test tube) Test SMS from Locci Farm IoT system - all systems operational!">>)),
                  type |-> JsOr(body.type, S(<<"test">>))], Webhook)
     IN /\ waiting' = a1.waiting
        /\ added' = a1.added
  /\ http' = [code |-> 200]
  /\ UNCHANGED <<env, clock, active, counts, fmtVars>>

\* POST /webhooks/test-sms
TestSms == \E body \in TestSmsBodies : TestSmsRequest(body)

\* a faulty variant of ApiStatus that sends the system_status notification
\* a second time
ApiStatusResend ==
  /\ Polled(2)
  /\ LET details == [message |-> S(<<"System status check requested">>),
                     systemsHealthy |-> B(TRUE), queues |-> N(5)]
         first == sendTaskNotification(waiting, added, "system_status",
                    details, Webhook, clock)
         sent == sendTaskNotification(first.waiting, first.added,
                   "system_status", details, Webhook, clock)
     IN /\ waiting' = sent.waiting
        /\ added' = sent.added
        /\ http' = [code |-> IF sent.threw THEN 500 ELSE 200]
  /\ UNCHANGED <<env, clock, active, counts, fmtVars>>

\* GET /api/status: reads the counts of the five queues, sends the
\* system_status notification, then answers
ApiStatus ==
  /\ Polled(1)
  /\ LET queueStatus == [q \in Queues |-> getJobCounts(q)]
         sent == sendTaskNotification(waiting, added, "system_status",
                   [message |-> S(<<"System status check requested">>),
                    systemsHealthy |-> B(TRUE),
                    queues |-> N(Cardinality(DOMAIN queueStatus))],
                   Webhook, clock)
     IN /\ waiting' = sent.waiting
        /\ added' = sent.added
        /\ http' = [code |-> IF sent.threw THEN 500 ELSE 200]
  /\ UNCHANGED <<env, clock, active, counts, fmtVars>>

----------------------------------------------------------------------------
(* Job processors.  A processor draws its simulated readings when it       *)
(* starts; from them it decides the awaited calls it will make, in order   *)
(* (todo), and the value it returns when none of them fails (result).      *)
(* Each awaited call is then one step of the running job.                  *)

AddEff(q, name, data) == [op |-> "add", queue |-> q, name |-> name, data |-> data]
NotifyEff(taskType, details) ==
  [op |-> "notify", taskType |-> taskType, details |-> details]
SendEff == [op |-> "send"]

Plan(todo, result) == [todo |-> todo, result |-> result]

\* the condition of the low-moisture branch of collect-soil-moisture:
\*   moistureLevel < parseFloat(process.env.SOIL_MOISTURE_LOW_THRESHOLD) || 30
\* in which < binds tighter than ||
lowMoisture(moistureLevel) ==
  Truthy(JsOr(JsLt(N(moistureLevel),
                   parseFloat(env["SOIL_MOISTURE_LOW_THRESHOLD"])),
              N(30)))

\* a faulty variant of collectSoilMoisture that starts the irrigation without
\* announcing it
collectSoilMoistureUnannounced(job, moistureLevel, temperature, humidity) ==
  LET farmId == Get(job.data, "farmId")
      sensorType == Get(job.data, "sensorType")
  IN Plan(
       <<NotifyEff("sensor_data_collected",
           [farmId |-> farmId, sensorType |-> sensorType,
            moistureLevel |-> N(moistureLevel),
            temperature |-> N(temperature), humidity |-> N(humidity)])>>
       \o (IF lowMoisture(moistureLevel)
           THEN <<AddEff("irrigation", "start-irrigation",
                    [farmId |-> farmId, zone |-> S(<<"zone-a">>),
                     reason |-> S(<<"low", "_", "soil", "_", "moisture">>),
                     moistureLevel |-> N(moistureLevel)])>>
           ELSE <<>>),
       [moistureLevel |-> N(moistureLevel), temperature |-> N(temperature),
        humidity |-> N(humidity), status |-> S(<<"collected">>)])

\* iotSensorQueue.process("collect-soil-moisture")
collectSoilMoisture(job, moistureLevel, temperature, humidity) ==
  LET farmId == Get(job.data, "farmId")
      sensorType == Get(job.data, "sensorType")
  IN Plan(
       <<NotifyEff("sensor_data_collected",
           [farmId |-> farmId, sensorType |-> sensorType,
            moistureLevel |-> N(moistureLevel),
            temperature |-> N(temperature), humidity |-> N(humidity)])>>
       \o (IF lowMoisture(moistureLevel)
           THEN <<AddEff("irrigation", "start-irrigation",
                    [farmId |-> farmId, zone |-> S(<<"zone-a">>),
                     reason |-> S(<<"low", "_", "soil", "_", "moisture">>),
                     moistureLevel |-> N(moistureLevel)]),
                  NotifyEff("irrigation_started",
                    [farmId |-> farmId, zone |-> S(<<"zone-a">>),
                     reason |-> S(<<"low", "_", "soil", "_", "moisture">>),
                     moistureLevel |-> N(moistureLevel),
                     duration |-> S(<<"30 minutes">>)])>>
           ELSE <<>>),
       [moistureLevel |-> N(moistureLevel), temperature |-> N(temperature),
        humidity |-> N(humidity), status |-> S(<<"collected">>)])

\* a faulty variant of collectWeatherData whose default temperature
\* threshold is 30
collectWeatherDataWarmDefault(job, temperature, humidity) ==
  LET tempThreshold ==
        JsOr(parseFloat(env["TEMPERATURE_HIGH_THRESHOLD"]), N(30))
      humidityThreshold ==
        JsOr(parseFloat(env["HUMIDITY_LOW_THRESHOLD"]), N(40))
  IN Plan(
       (IF Truthy(JsGt(N(temperature), tempThreshold))
        THEN <<NotifyEff("weather_warning",
                 [farmId |-> Get(job.data, "farmId"),
                  warning |-> S(<<"High temperature alert">>),
                  temperature |-> N(temperature),
                  forecast |-> S(<<"Consider shade protection for sensitive crops">>)])>>
        ELSE <<>>)
       \o (IF Truthy(JsLt(N(humidity), humidityThreshold))
           THEN <<NotifyEff("weather_warning",
                    [farmId |-> Get(job.data, "farmId"),
                     warning |-> S(<<"Low humidity alert">>),
                     humidity |-> N(humidity),
                     forecast |-> S(<<"Increase irrigation frequency">>)])>>
           ELSE <<>>),
       [temperature |-> N(temperature), humidity |-> N(humidity)])

\* iotSensorQueue.process("collect-weather-data"); rainfall and windSpeed
\* only appear in the returned value and are left out
collectWeatherData(job, temperature, humidity) ==
  LET tempThreshold ==
        JsOr(parseFloat(env["TEMPERATURE_HIGH_THRESHOLD"]), N(35))
      humidityThreshold ==
        JsOr(parseFloat(env["HUMIDITY_LOW_THRESHOLD"]), N(40))
  IN Plan(
       (IF Truthy(JsGt(N(temperature), tempThreshold))
        THEN <<NotifyEff("weather_warning",
                 [farmId |-> Get(job.data, "farmId"),
                  warning |-> S(<<"High temperature alert">>),
                  temperature |-> N(temperature),
                  forecast |-> S(<<"Consider shade protection for sensitive crops">>)])>>
        ELSE <<>>)
       \o (IF Truthy(JsLt(N(humidity), humidityThreshold))
           THEN <<NotifyEff("weather_warning",
                    [farmId |-> Get(job.data, "farmId"),
                     warning |-> S(<<"Low humidity alert">>),
                     humidity |-> N(humidity),
                     forecast |-> S(<<"Increase irrigation frequency">>)])>>
           ELSE <<>>),
       [temperature |-> N(temperature), humidity |-> N(humidity)])

\* iotSensorQueue.process("collect-crop-health"); growthRate and diseaseRisk
\* only appear in the returned value and are left out
collectCropHealth(job, leafHealth, pestActivity) ==
  LET farmId == Get(job.data, "farmId") IN
  Plan(
    (IF leafHealth < 60
     THEN <<NotifyEff("weather_warning",
              [farmId |-> farmId,
               warning |-> S(<<"Poor crop health detected">>),
               leafHealth |-> S(toFixed(leafHealth, 1)),
               forecast |-> S(<<"Consider nutrient supplementation or pest control">>)])>>
     ELSE <<>>)
    \o (IF pestActivity > 70
        THEN <<NotifyEff("weather_warning",
                 [farmId |-> farmId,
                  warning |-> S(<<"High pest activity detected">>),
                  pestActivity |-> S(toFixed(pestActivity, 1)),
                  forecast |-> S(<<"Apply pest control measures immediately">>)])>>
        ELSE <<>>),
    [leafHealth |-> N(leafHealth), pestActivity |-> N(pestActivity),
     status |-> S(<<"analyzed">>)])

\* irrigationQueue.process("start-irrigation"); the two-second wait before
\* the notification is the gap between the start of the job and its step
startIrrigation(job, simulated, improvement) ==
  LET beforeLevel == JsOr(Get(job.data, "moistureLevel"), N(simulated))
      afterLevel == N(beforeLevel.v + improvement)
      duration == S(<<"30 minutes">>)
  IN Plan(
       <<NotifyEff("irrigation_completed",
           [farmId |-> Get(job.data, "farmId"), zone |-> Get(job.data, "zone"),
            beforeLevel |-> beforeLevel, afterLevel |-> afterLevel,
            duration |-> duration])>>,
       [status |-> S(<<"irrigation_completed">>), duration |-> duration,
        moistureImprovement |-> N(afterLevel.v - beforeLevel.v)])

\* the indexes from i on, in order, at which the sequence of flags is TRUE
RECURSIVE Filter(_, _)
Filter(flags, i) ==
  IF i > Len(flags) THEN <<>>
  ELSE (IF flags[i] THEN <<i>> ELSE <<>>) \o Filter(flags, i + 1)

\* irrigationQueue.process("assess-irrigation-needs"); readings[i] is the
\* moisture simulated for the i-th zone
assessIrrigationNeeds(job, readings) ==
  LET farmId == Get(job.data, "farmId")
      zones == Get(job.data, "zones").v
      threshold == JsOr(parseFloat(env["SOIL_MOISTURE_LOW_THRESHOLD"]), N(35))
      dry == Filter([i \in 1..Len(zones) |->
                       Truthy(JsLt(N(readings[i]), threshold))], 1)
      zonesNeedingIrrigation == Len(dry)
  IN Plan(
       [k \in 1..Len(dry) |->
          AddEff("irrigation", "start-irrigation",
            [farmId |-> farmId, zone |-> zones[dry[k]],
             reason |-> S(<<"scheduled", "_", "assessment">>),
             moistureLevel |-> N(readings[dry[k]])])]
       \o <<NotifyEff("task_completed",
              [farmId |-> farmId,
               taskName |-> S(<<"Irrigation Assessment">>),
               status |-> S(<<ToString(zonesNeedingIrrigation), "/",
                              ToString(Len(zones)), " zones need watering">>),
               zonesChecked |-> N(Len(zones)),
               zonesNeedingIrrigation |-> N(zonesNeedingIrrigation)])>>,
       [status |-> S(<<"assessment_complete">>),
        zones_checked |-> N(Len(zones)),
        zones_needing_irrigation |-> N(zonesNeedingIrrigation)])


\* the concatenation of the sequences seqs[i], seqs[i+1], ...
RECURSIVE Flatten(_, _)
Flatten(seqs, i) ==
  IF i > Len(seqs) THEN <<>> ELSE seqs[i] \o Flatten(seqs, i + 1)

\* crop === "maize" ? 70 : crop === "beans" ? 110 : 55
basePrice(crop) ==
  IF crop = S(<<"maize">>) THEN 70
  ELSE IF crop = S(<<"beans">>) THEN 110 ELSE 55

\* `${crop.toUpperCase()}_PRICE_ALERT_THRESHOLD`
thresholdKey(crop) ==
  (CASE crop = S(<<"maize">>) -> "MAIZE"
     [] crop = S(<<"beans">>) -> "BEANS"
     [] crop = S(<<"tomatoes">>) -> "TOMATOES"
     [] OTHER -> "OTHER") \o "_PRICE_ALERT_THRESHOLD"

\* parseFloat(process.env[thresholdKey]) || basePrice + 10
priceThreshold(crop) ==
  JsOr(parseFloat(Get(env, thresholdKey(crop))), N(basePrice(crop) + 10))

\* a faulty variant of priceAlert that also alerts at the threshold itself
priceAlertAtThreshold(crop, currentPrice, threshold, market) ==
  IF currentPrice >= threshold.v
  THEN <<[crop |-> crop, price |-> N(currentPrice), threshold |-> threshold,
          trend |-> S(<<"up">>), market |-> market,
          recommendation |-> S(<<"Consider selling - good market price!">>)]>>
  ELSE IF currentPrice * 10 < threshold.v * 7
  THEN <<[crop |-> crop, price |-> N(currentPrice), threshold |-> threshold,
          trend |-> S(<<"down">>), market |-> market,
          recommendation |-> S(<<"Hold stock - wait for better prices">>)]>>
  ELSE <<>>

\* a faulty variant of priceAlert with two separate tests, the second one
\* comparing the wrong way round
priceAlertBoth(crop, currentPrice, threshold, market) ==
  (IF currentPrice > threshold.v
   THEN <<[crop |-> crop, price |-> N(currentPrice), threshold |-> threshold,
           trend |-> S(<<"up">>), market |-> market,
           recommendation |-> S(<<"Consider selling - good market price!">>)]>>
   ELSE <<>>)
  \o (IF currentPrice * 10 > threshold.v * 7
      THEN <<[crop |-> crop, price |-> N(currentPrice),
              threshold |-> threshold, trend |-> S(<<"down">>),
              market |-> market,
              recommendation |-> S(<<"Hold stock - wait for better prices">>)]>>
      ELSE <<>>)

\* the alerts one crop pushes on priceAlerts: at most one.  The comparison
\* currentPrice < threshold * 0.7 is computed in tenths.
priceAlert(crop, currentPrice, threshold, market) ==
  IF currentPrice > threshold.v
  THEN <<[crop |-> crop, price |-> N(currentPrice), threshold |-> threshold,
          trend |-> S(<<"up">>), market |-> market,
          recommendation |-> S(<<"Consider selling - good market price!">>)]>>
  ELSE IF currentPrice * 10 < threshold.v * 7
  THEN <<[crop |-> crop, price |-> N(currentPrice), threshold |-> threshold,
          trend |-> S(<<"down">>), market |-> market,
          recommendation |-> S(<<"Hold stock - wait for better prices">>)]>>
  ELSE <<>>

\* a faulty variant of fetchMarketPrices that sends the summary only when
\* there is an alert to report
fetchMarketPricesQuiet(job, noise) ==
  LET crops == Get(job.data, "crops").v
      markets == Get(job.data, "markets").v
      market == JsOr(IF Len(markets) > 0 THEN markets[1] ELSE Undef,
                     S(<<"Nairobi">>))
      prices == [i \in 1..Len(crops) |-> basePrice(crops[i]) + noise[i]]
      priceAlerts ==
        Flatten([i \in 1..Len(crops) |->
                   priceAlert(crops[i], prices[i], priceThreshold(crops[i]),
                              market)], 1)
  IN Plan(
       [k \in 1..Len(priceAlerts) |->
          NotifyEff("market_price_alert", priceAlerts[k])]
       \o (IF priceAlerts = <<>> THEN <<>>
           ELSE <<NotifyEff("task_completed",
                    [taskName |-> S(<<"Market Price Update">>),
                     status |-> S(<<"Checked ", ToString(Len(crops)),
                                    " crops, ", ToString(Len(priceAlerts)),
                                    " alerts">>),
                     prices |-> Arr([i \in 1..Len(crops) |-> N(prices[i])]),
                     marketsChecked |-> N(Len(markets))])>>),
       [prices |-> Arr([i \in 1..Len(crops) |-> N(prices[i])]),
        markets_checked |-> N(Len(markets)),
        alerts_sent |-> N(Len(priceAlerts))])

\* marketDataQueue.process("fetch-market-prices"); noise[i] is the simulated
\* deviation of the i-th crop from its base price
fetchMarketPrices(job, noise) ==
  LET crops == Get(job.data, "crops").v
      markets == Get(job.data, "markets").v
      market == JsOr(IF Len(markets) > 0 THEN markets[1] ELSE Undef,
                     S(<<"Nairobi">>))
      prices == [i \in 1..Len(crops) |-> basePrice(crops[i]) + noise[i]]
      priceAlerts ==
        Flatten([i \in 1..Len(crops) |->
                   priceAlert(crops[i], prices[i], priceThreshold(crops[i]),
                              market)], 1)
  IN Plan(
       [k \in 1..Len(priceAlerts) |->
          NotifyEff("market_price_alert", priceAlerts[k])]
       \o <<NotifyEff("task_completed",
              [taskName |-> S(<<"Market Price Update">>),
               status |-> S(<<"Checked ", ToString(Len(crops)), " crops, ",
                              ToString(Len(priceAlerts)), " alerts">>),
               prices |-> Arr([i \in 1..Len(crops) |-> N(prices[i])]),
               marketsChecked |-> N(Len(markets))])>>,
       [prices |-> Arr([i \in 1..Len(crops) |-> N(prices[i])]),
        markets_checked |-> N(Len(markets)),
        alerts_sent |-> N(Len(priceAlerts))])

\* a faulty variant of healthBand whose comparisons include the boundary
healthBandInclusive(health) ==
  IF health <= 20 THEN "failure"
  ELSE IF health <= 40 THEN "maintenance" ELSE "none"

\* the band of one health reading: health < 20 is a failure, otherwise
\* health < 40 asks for maintenance, otherwise nothing
healthBand(health) ==
  IF health < 20 THEN "failure"
  ELSE IF health < 40 THEN "maintenance" ELSE "none"

\* a faulty variant of checkEquipmentStatus whose summary counts the
\* maintenance alerts only
checkEquipmentStatusUndercounting(job, health) ==
  LET farmId == Get(job.data, "farmId")
      equipment == Get(job.data, "equipment").v
      Alert(i) == [farmId |-> farmId,
                   equipment |-> S(replace(equipment[i].v, "-", " ")),
                   health |-> S(toFixed(health[i], 0))]
      failed == Filter([i \in 1..Len(equipment) |->
                          healthBand(health[i]) = "failure"], 1)
      due == Filter([i \in 1..Len(equipment) |->
                       healthBand(health[i]) = "maintenance"], 1)
      failureAlerts == [k \in 1..Len(failed) |-> Alert(failed[k])]
      maintenanceAlerts == [k \in 1..Len(due) |-> Alert(due[k])]
      alerts == Len(maintenanceAlerts)
  IN Plan(
       [k \in 1..Len(failureAlerts) |->
          NotifyEff("equipment_failure", failureAlerts[k])]
       \o [k \in 1..Len(maintenanceAlerts) |->
             NotifyEff("maintenance_required", maintenanceAlerts[k])]
       \o <<NotifyEff("task_completed",
              [farmId |-> farmId,
               taskName |-> S(<<"Equipment Maintenance Check">>),
               status |-> S(<<ToString(Len(equipment)), " items checked, ",
                              ToString(alerts), " alerts">>),
               equipmentChecked |-> N(Len(equipment)),
               alertsGenerated |-> N(alerts)])>>,
       [healthChecks |-> Arr([i \in 1..Len(equipment) |-> N(health[i])]),
        status |-> S(<<"complete">>),
        maintenance_alerts |-> N(Len(maintenanceAlerts)),
        failure_alerts |-> N(Len(failureAlerts))])

\* a faulty variant of checkEquipmentStatus that sends the maintenance alerts
\* before the failure alerts
checkEquipmentStatusMaintenanceFirst(job, health) ==
  LET farmId == Get(job.data, "farmId")
      equipment == Get(job.data, "equipment").v
      Alert(i) == [farmId |-> farmId,
                   equipment |-> S(replace(equipment[i].v, "-", " ")),
                   health |-> S(toFixed(health[i], 0))]
      failed == Filter([i \in 1..Len(equipment) |->
                          healthBand(health[i]) = "failure"], 1)
      due == Filter([i \in 1..Len(equipment) |->
                       healthBand(health[i]) = "maintenance"], 1)
      failureAlerts == [k \in 1..Len(failed) |-> Alert(failed[k])]
      maintenanceAlerts == [k \in 1..Len(due) |-> Alert(due[k])]
      alerts == Len(maintenanceAlerts) + Len(failureAlerts)
  IN Plan(
       [k \in 1..Len(maintenanceAlerts) |->
          NotifyEff("maintenance_required", maintenanceAlerts[k])]
       \o [k \in 1..Len(failureAlerts) |->
             NotifyEff("equipment_failure", failureAlerts[k])]
       \o <<NotifyEff("task_completed",
              [farmId |-> farmId,
               taskName |-> S(<<"Equipment Maintenance Check">>),
               status |-> S(<<ToString(Len(equipment)), " items checked, ",
                              ToString(alerts), " alerts">>),
               equipmentChecked |-> N(Len(equipment)),
               alertsGenerated |-> N(alerts)])>>,
       [healthChecks |-> Arr([i \in 1..Len(equipment) |-> N(health[i])]),
        status |-> S(<<"complete">>),
        maintenance_alerts |-> N(Len(maintenanceAlerts)),
        failure_alerts |-> N(Len(failureAlerts))])

\* maintenanceQueue.process("check-equipment-status"); health[i] is the
\* simulated health of the i-th item
checkEquipmentStatus(job, health) ==
  LET farmId == Get(job.data, "farmId")
      equipment == Get(job.data, "equipment").v
      Alert(i) == [farmId |-> farmId,
                   equipment |-> S(replace(equipment[i].v, "-", " ")),
                   health |-> S(toFixed(health[i], 0))]
      failed == Filter([i \in 1..Len(equipment) |->
                          healthBand(health[i]) = "failure"], 1)
      due == Filter([i \in 1..Len(equipment) |->
                       healthBand(health[i]) = "maintenance"], 1)
      failureAlerts == [k \in 1..Len(failed) |-> Alert(failed[k])]
      maintenanceAlerts == [k \in 1..Len(due) |-> Alert(due[k])]
      alerts == Len(maintenanceAlerts) + Len(failureAlerts)
  IN Plan(
       [k \in 1..Len(failureAlerts) |->
          NotifyEff("equipment_failure", failureAlerts[k])]
       \o [k \in 1..Len(maintenanceAlerts) |->
             NotifyEff("maintenance_required", maintenanceAlerts[k])]
       \o <<NotifyEff("task_completed",
              [farmId |-> farmId,
               taskName |-> S(<<"Equipment Maintenance Check">>),
               status |-> S(<<ToString(Len(equipment)), " items checked, ",
                              ToString(alerts), " alerts">>),
               equipmentChecked |-> N(Len(equipment)),
               alertsGenerated |-> N(alerts)])>>,
       [healthChecks |-> Arr([i \in 1..Len(equipment) |-> N(health[i])]),
        status |-> S(<<"complete">>),
        maintenance_alerts |-> N(Len(maintenanceAlerts)),
        failure_alerts |-> N(Len(failureAlerts))])

\* what smsService.send may do: deliver and answer with one recipient,
\* answer with an empty recipient list, answer without SMSMessageData, or
\* reject with an Error
AdapterOutcomes == {"delivered", "noRecipients", "malformed", "rejected"}

smsSend(outcome) ==
  CASE outcome = "delivered" ->
         [rejected |-> FALSE,
          response |-> [SMSMessageData |->
             [Message |-> S(<<"Sent to 1/1">>),
              Recipients |-> <<[messageId |-> S(<<"ATXid_1">>),
                                cost |-> S(<<"KES 0.8000">>)]>>]]]
    [] outcome = "noRecipients" ->
         [rejected |-> FALSE,
          response |-> [SMSMessageData |->
             [Message |-> S(<<"Sent to 0/1">>), Recipients |-> <<>>]]]
    [] outcome = "malformed" ->
         [rejected |-> FALSE, response |-> [status |-> S(<<"error">>)]]
    [] OTHER ->
         [rejected |-> TRUE, error |-> [message |-> S(<<"Request failed">>)]]

\* a faulty variant of smsFailed that throws the error again
smsFailedRethrow(job, error) ==
  [threw |-> TRUE, error |-> Interp(Get(error, "message"))]

\* the catch block of send-sms: the error is recorded in the returned value
smsFailed(job, error) ==
  [threw |-> FALSE,
   value |-> [status |-> S(<<"failed">>), provider |-> S(<<"africas_talking">>),
              error |-> Get(error, "message"),
              phoneNumber |-> Get(job.data, "phoneNumber"),
              messageType |-> Get(job.data, "type")]]

\* notificationQueue.process("send-sms"), given what the adapter did:
\* [threw, value] is how the processor ends
sendSms(job, adapter) ==
  IF adapter.rejected THEN smsFailed(job, adapter.error)
  ELSE
    LET data == Get(adapter.response, "SMSMessageData") IN
    IF data = Undef
    THEN smsFailed(job, [message |-> S(<<"TypeError: ",
           "Cannot read properties of undefined (reading 'Recipients')">>)])
    ELSE
      LET first == IF Len(data.Recipients) > 0
                   THEN data.Recipients[1] ELSE <<>>
      IN [threw |-> FALSE,
          value |-> [status |-> S(<<"sent">>),
                     provider |-> S(<<"africas_talking">>),
                     response |-> data,
                     messageId |-> Get(first, "messageId"),
                     cost |-> Get(first, "cost")]]

----------------------------------------------------------------------------
(* Life of a job: a worker of its queue takes it from the head of the      *)
(* waiting list, the processor runs through its awaited calls, and the job *)
(* is then recorded as completed (the processor returned) or failed (it    *)
(* threw).  emitted lists the jobs the run has enqueued so far, adapter     *)
(* what the SMS adapter did for it, and drawn the simulated readings that  *)
(* the return value of the processor does not show.                        *)

Run(job, plan) ==
  [job |-> job, todo |-> plan.todo, emitted |-> <<>>,
   outcome |-> IF plan.todo = <<>> THEN "returned" ELSE "running",
   result |-> plan.result, error |-> <<>>, adapter |-> "none",
   drawn |-> IF "drawn" \in DOMAIN plan THEN plan.drawn ELSE <<>>]

\* number of jobs a list of awaited calls enqueues
Enqueues(todo) == Len(SelectSeq(todo, LAMBDA e : e.op \in {"add", "notify"}))

CanStart(q, name) ==
  /\ waiting[q] # <<>>
  /\ Head(waiting[q]).name = name
  /\ Cardinality(active[q]) < Concurrency(q)

\* jobs enqueued so far plus those the running processors will still enqueue
Committed ==
  TotalAdded
  + Sum([q \in Queues |->
           Sum([r \in active[q] |-> Enqueues(r.todo)], active[q])], Queues)

Start(q, plan) ==
  /\ Committed + Enqueues(plan.todo) <= MaxJobs
  /\ waiting' = [waiting EXCEPT ![q] = Tail(@)]
  /\ active' = [active EXCEPT ![q] = @ \cup {Run(Head(waiting[q]), plan)}]
  /\ UNCHANGED <<env, clock, counts, added, http, fmtVars>>

ProcessCollectSoilMoisture ==
  /\ CanStart("iot-sensors", "collect-soil-moisture")
  /\ \E moistureLevel \in MoistureLevels, temperature \in SoilTemperatures,
        humidity \in SoilHumidities :
       Start("iot-sensors",
             collectSoilMoisture(Head(waiting["iot-sensors"]), moistureLevel,
                                 temperature, humidity))

ProcessCollectWeatherData ==
  /\ CanStart("iot-sensors", "collect-weather-data")
  /\ \E temperature \in Temperatures, humidity \in Humidities :
       Start("iot-sensors",
             collectWeatherData(Head(waiting["iot-sensors"]), temperature,
                                humidity))

ProcessCollectCropHealth ==
  /\ CanStart("iot-sensors", "collect-crop-health")
  /\ \E reading \in CropReadings :
       Start("iot-sensors",
             collectCropHealth(Head(waiting["iot-sensors"]),
                               reading.leafHealth, reading.pestActivity))

ProcessStartIrrigation ==
  /\ CanStart("irrigation", "start-irrigation")
  /\ \E simulated \in SimulatedBefore, improvement \in Improvements :
       Start("irrigation",
             startIrrigation(Head(waiting["irrigation"]), simulated,
                             improvement))

ProcessAssessIrrigationNeeds ==
  /\ CanStart("irrigation", "assess-irrigation-needs")
  /\ LET job == Head(waiting["irrigation"]) IN
     \E readings \in [1..Len(job.data.zones.v) -> ZoneReadings] :
       Start("irrigation",
             assessIrrigationNeeds(job, readings) @@ [drawn |-> readings])

ProcessFetchMarketPrices ==
  /\ CanStart("market-data", "fetch-market-prices")
  /\ LET job == Head(waiting["market-data"]) IN
     \E noise \in [1..Len(job.data.crops.v) -> PriceNoise] :
       Start("market-data", fetchMarketPrices(job, noise))

ProcessCheckEquipmentStatus ==
  /\ CanStart("maintenance", "check-equipment-status")
  /\ LET job == Head(waiting["maintenance"]) IN
     \E health \in [1..Len(job.data.equipment.v) -> Healths] :
       Start("maintenance", checkEquipmentStatus(job, health))

ProcessSendSms ==
  /\ CanStart("notifications", "send-sms")
  /\ Start("notifications", Plan(<<SendEff>>, <<>>))

\* the run after its first awaited call has been carried out
Advance(r, emitted) ==
  [r EXCEPT !.todo = Tail(@), !.emitted = @ \o emitted,
            !.outcome = IF Tail(r.todo) = <<>> THEN "returned" ELSE "running"]

Threw(r, error) == [r EXCEPT !.outcome = "threw", !.error = error]

Self(q, r) == [queue |-> q, id |-> r.job.id]

\* await someQueue.add(name, data) inside a processor
StepAdd ==
  \E q \in Queues : \E r \in active[q] :
    /\ r.outcome = "running"
    /\ Head(r.todo).op = "add"
    /\ LET e == Head(r.todo)
           res == QueueAdd(waiting, added, e.queue, e.name, e.data, Self(q, r))
       IN /\ waiting' = res.waiting
          /\ added' = res.added
          /\ active' = [active EXCEPT ![q] =
               (@ \ {r}) \cup {Advance(r, <<[queue |-> e.queue,
                                              name |-> e.name,
                                              data |-> e.data]>>)}]
    /\ UNCHANGED <<env, clock, counts, http, fmtVars>>

\* await sendTaskNotification(kind, details) inside a processor
StepNotify ==
  \E q \in Queues : \E r \in active[q] :
    /\ r.outcome = "running"
    /\ Head(r.todo).op = "notify"
    /\ LET e == Head(r.todo)
           res == sendTaskNotification(waiting, added, e.taskType, e.details,
                                       Self(q, r), clock)
       IN /\ waiting' = res.waiting
          /\ added' = res.added
          /\ active' = [active EXCEPT ![q] =
               (@ \ {r}) \cup
               {IF res.threw THEN Threw(r, res.error)
                ELSE Advance(r, <<[queue |-> "notifications",
                                   name |-> "send-sms",
                                   data |-> res.waiting["notifications"][
                                     Len(res.waiting["notifications"])].data]>>)}]
    /\ UNCHANGED <<env, clock, counts, http, fmtVars>>

\* await smsService.send(options) inside send-sms, and what follows it
StepSend ==
  \E q \in Queues : \E r \in active[q] :
    /\ r.outcome = "running"
    /\ Head(r.todo).op = "send"
    /\ \E outcome \in AdapterOutcomes :
         LET end == sendSms(r.job, smsSend(outcome)) IN
         active' = [active EXCEPT ![q] =
           (@ \ {r}) \cup
           {IF end.threw
            THEN [Threw(r, end.error) EXCEPT !.adapter = outcome]
            ELSE [Advance(r, <<>>) EXCEPT !.result = end.value,
                                          !.adapter = outcome]}]
    /\ UNCHANGED <<env, clock, waiting, counts, added, http, fmtVars>>

\* a faulty variant of Finish that hands the job back to its queue
FinishRequeue ==
  \E q \in Queues : \E r \in active[q] :
    /\ r.outcome # "running"
    /\ active' = [active EXCEPT ![q] = @ \ {r}]
    /\ waiting' = [waiting EXCEPT ![q] = Append(@, r.job)]
    /\ UNCHANGED <<env, clock, counts, added, http, fmtVars>>

\* the worker records how the processor ended and is free again
Finish ==
  \E q \in Queues : \E r \in active[q] :
    /\ r.outcome # "running"
    /\ active' = [active EXCEPT ![q] = @ \ {r}]
    /\ counts' = [counts EXCEPT ![q] =
         IF r.outcome = "threw" THEN [@ EXCEPT !.failed = @ + 1]
         ELSE [@ EXCEPT !.completed = @ + 1]]
    /\ UNCHANGED <<env, clock, waiting, added, http, fmtVars>>

Next ==
  \/ CollectSensorData
  \/ IrrigationCheck
  \/ MarketPrices
  \/ MaintenanceCheck
  \/ TestSms
  \/ ApiStatus
  \/ ProcessCollectSoilMoisture
  \/ ProcessCollectWeatherData
  \/ ProcessCollectCropHealth
  \/ ProcessStartIrrigation
  \/ ProcessAssessIrrigationNeeds
  \/ ProcessFetchMarketPrices
  \/ ProcessCheckEquipmentStatus
  \/ ProcessSendSms
  \/ StepAdd
  \/ StepNotify
  \/ StepSend
  \/ Finish

Spec == Init /\ [][Next]_vars

\* the server started with every threshold configured as the text "0"
ZeroOverrides ==
  [k \in EnvKeys |-> IF k = "FARMER_PHONE" THEN Undef ELSE N(0)]

InitZeroed ==
  /\ env = ZeroOverrides
  /\ clock = 0
  /\ waiting = [q \in Queues |-> <<>>]
  /\ active = [q \in Queues |-> {}]
  /\ counts = [q \in Queues |-> [completed |-> 0, failed |-> 0]]
  /\ added = [q \in Queues |-> 0]
  /\ http = [code |-> 0]
  /\ FmtIdle

SpecZeroed == InitZeroed /\ [][Next]_vars

----------------------------------------------------------------------------
(* The server with a queue store that can refuse an enqueue.  No processor  *)
(* wraps its awaited queue.add or sendTaskNotification calls in try/catch:  *)
(* the rejection leaves the processor and Bull records the job as failed.   *)

\* executions that have ended by a thrown error
Failures ==
  Sum([q \in Queues |->
         counts[q].failed
         + Cardinality({r \in active[q] : r.outcome = "threw"})], Queues)

InitOutage ==
  /\ Init
  /\ env = NoOverrides

\* the awaited queue.add of a running processor, made directly or inside
\* sendTaskNotification, rejects: nothing is enqueued by this call and the
\* error propagates out of the processor
EnqueueFails ==
  \E q \in Queues : \E r \in active[q] :
    /\ Failures < MaxFailures
    /\ r.outcome = "running"
    /\ Head(r.todo).op \in {"add", "notify"}
    /\ active' = [active EXCEPT ![q] =
         (@ \ {r}) \cup {Threw(r, <<"Error: ", "Connection is closed.">>)}]
    /\ UNCHANGED <<env, clock, waiting, counts, added, http, fmtVars>>

\* POST /webhooks/collect-sensor-data when the queue store refuses one of the
\* three awaited adds of the handler: the adds before it have been carried
\* out, the rejection is caught, and the caller is answered with status 500
CollectSensorDataRefused ==
  /\ Scheduled(3)
  /\ \E refused \in 1..3 :
       LET a1 == QueueAdd(waiting, added, "iot-sensors", "collect-soil-moisture",
                   [farmId |-> farm001, sensorType |-> S(<<"soil_moisture">>)],
                   Webhook)
           a2 == QueueAdd(a1.waiting, a1.added, "iot-sensors",
                   "collect-weather-data",
                   [farmId |-> farm001, sensorType |-> S(<<"weather">>)],
                   Webhook)
           done == CASE refused = 1 -> [waiting |-> waiting, added |-> added]
                     [] refused = 2 -> a1
                     [] OTHER -> a2
       IN /\ waiting' = done.waiting
          /\ added' = done.added
  /\ http' = [code |-> 500]
  /\ UNCHANGED <<env, clock, active, counts, fmtVars>>

\* the three triggers whose jobs enqueue further jobs, their processors, and
\* the refusals, in a processor and in the collect-sensor-data handler
NextOutage ==
  \/ CollectSensorData
  \/ CollectSensorDataRefused
  \/ IrrigationCheck
  \/ MaintenanceCheck
  \/ ProcessCollectSoilMoisture
  \/ ProcessCollectWeatherData
  \/ ProcessCollectCropHealth
  \/ ProcessStartIrrigation
  \/ ProcessAssessIrrigationNeeds
  \/ ProcessCheckEquipmentStatus
  \/ ProcessSendSms
  \/ StepAdd
  \/ StepNotify
  \/ StepSend
  \/ Finish
  \/ EnqueueFails

SpecOutage == InitOutage /\ [][NextOutage]_vars

----------------------------------------------------------------------------
(* The formatter on its own: one (kind, details) input drawn from a        *)
(* bounded set, rendered up to MaxRenders times while the clock runs.      *)

Absent == [t |-> "absent"]
Opt(key, x) == IF x = Absent THEN <<>> ELSE (key :> x)

\* the nine known kinds and one that the switch does not know
FmtKinds == KnownKinds \cup {"harvest_reminder"}

\* details mappings in which each field is present or absent
FmtDetails ==
  { Opt("farmId", farmId) @@ Opt("reason", reason)
      @@ Opt("moistureLevel", moistureLevel) @@ Opt("zone", zone)
      @@ Opt("trend", trend) @@ Opt("customMessage", customMessage) :
      farmId \in {Absent, S(<<"farm-001">>), S(<<"farm-7">>)},
      reason \in {Absent, S(<<"low", "_", "soil", "_", "moisture">>),
                  S(<<"manual">>)},
      moistureLevel \in {Absent, N(10)},
      zone \in {Absent, S(<<"zone-a">>)},
      trend \in {Absent, S(<<"up">>), S(<<"down">>)},
      customMessage \in {Absent, S(<<"Harvest is due">>)} }

InitFmt ==
  /\ env = NoOverrides
  /\ clock = 0
  /\ waiting = [q \in Queues |-> <<>>]
  /\ active = [q \in Queues |-> {}]
  /\ counts = [q \in Queues |-> [completed |-> 0, failed |-> 0]]
  /\ added = [q \in Queues |-> 0]
  /\ http = [code |-> 0]
  /\ fKind \in FmtKinds
  /\ fDetails \in FmtDetails
  /\ fOuts = <<>>

\* one application of the formatter, at the present time
FmtRender ==
  /\ Len(fOuts) < MaxRenders
  /\ fOuts' = Append(fOuts, [at |-> clock,
                             out |-> renderNotification(fKind, fDetails, clock)])
  /\ UNCHANGED <<engineVars, clock, fKind, fDetails>>

NextFmt == FmtRender \/ Tick

SpecFmt == InitFmt /\ [][NextFmt]_vars

----------------------------------------------------------------------------
(* The irrigation check under fair scheduling.  Each queue.process call     *)
(* starts a worker loop that takes the next waiting job whenever it is     *)
(* free, and the event loop resumes every awaited call that has settled:   *)
(* a consumer step that stays possible is eventually taken.  The SMS       *)
(* adapter answers every call (StepSend is always possible for a send-sms  *)
(* job in execution).  Trigger calls are not forced.                       *)

InitDrain ==
  /\ Init
  /\ env = NoOverrides

NextDrain ==
  \/ IrrigationCheck
  \/ ProcessAssessIrrigationNeeds
  \/ ProcessStartIrrigation
  \/ ProcessSendSms
  \/ StepAdd
  \/ StepNotify
  \/ StepSend
  \/ Finish

FairConsumers ==
  /\ WF_vars(ProcessAssessIrrigationNeeds)
  /\ WF_vars(ProcessStartIrrigation)
  /\ WF_vars(ProcessSendSms)
  /\ WF_vars(StepAdd)
  /\ WF_vars(StepNotify)
  /\ WF_vars(StepSend)
  /\ WF_vars(Finish)

SpecDrain == InitDrain /\ [][NextDrain]_vars /\ FairConsumers

----------------------------------------------------------------------------
(* Properties                                                              *)

\* the runs of processor name on queue q whose processor has returned
Returned(q, name) ==
  {r \in active[q] : r.job.name = name /\ r.outcome = "returned"}

\* the jobs a run has enqueued on queue q under the job name
EmittedOn(r, q, name) ==
  SelectSeq(r.emitted, LAMBDA e : e.queue = q /\ e.name = name)

\* the send-sms jobs a run has enqueued for notifications of one kind
NotificationsOf(r, kind) ==
  SelectSeq(r.emitted, LAMBDA e : /\ e.queue = "notifications"
                                  /\ e.data.type = S(<<kind>>))

\* the threshold registry of the specification: the configured override,
\* else the default of the rule
Resolve(key, default) ==
  IF env[key].t = "number" THEN env[key].v ELSE default

\* C1: a collect-soil-moisture job with reading r produces exactly one
\* start-irrigation follow-up carrying moistureLevel = r when r is below the
\* resolved soil_moisture_low threshold (default 30), and none otherwise.
SoilMoistureFollowUpRule ==
  \A r \in Returned("iot-sensors", "collect-soil-moisture") :
    LET reading == r.result.moistureLevel.v
        threshold == Resolve("SOIL_MOISTURE_LOW_THRESHOLD", 30)
        followUps == EmittedOn(r, "irrigation", "start-irrigation")
    IN IF reading < threshold
       THEN /\ Len(followUps) = 1
            /\ followUps[1].data.moistureLevel = N(reading)
       ELSE Len(followUps) = 0

\* C2 as claimed: a status request changes no queue: it enqueues no job and
\* leaves the contents and per-state counts of all five queues as they were.
StatusReadOnly ==
  [][ApiStatus => UNCHANGED <<waiting, active, counts, added>>]_vars

\* C2 as amended: a status request leaves the four domain queues, the active
\* jobs and the completed and failed counts as they were, and appends exactly
\* one send-sms job of type system_status to the notifications queue.
StatusOnlyNotifies ==
  [][ApiStatus =>
       /\ active' = active
       /\ counts' = counts
       /\ \A q \in Queues \ {"notifications"} :
            waiting'[q] = waiting[q] /\ added'[q] = added[q]
       /\ added'["notifications"] = added["notifications"] + 1
       /\ Len(waiting'["notifications"]) = Len(waiting["notifications"]) + 1
       /\ SubSeq(waiting'["notifications"], 1, Len(waiting["notifications"]))
            = waiting["notifications"]
       /\ LET job == waiting'["notifications"][Len(waiting'["notifications"])]
          IN /\ job.name = "send-sms"
             /\ job.data.type = S(<<"system_status">>)]_vars

\* a status request was made while a domain job was running, and its
\* notification waits on the notifications queue
StatusNotifiedWhileBusy ==
  /\ \E i \in DOMAIN waiting["notifications"] :
       waiting["notifications"][i].data.type = S(<<"system_status">>)
  /\ \E q \in Queues \ {"notifications"} : active[q] # {}

\* C3: a collect-soil-moisture job that reads moisture 10 enqueues a
\* start-irrigation follow-up for zone-a and an irrigation_started
\* notification whose message contains the text "low soil moisture".
LowMoistureReasonText ==
  \A r \in Returned("iot-sensors", "collect-soil-moisture") :
    r.result.moistureLevel = N(10) =>
      /\ \E i \in DOMAIN r.emitted :
           /\ r.emitted[i].queue = "irrigation"
           /\ r.emitted[i].name = "start-irrigation"
           /\ r.emitted[i].data.zone = S(<<"zone-a">>)
      /\ LET started == NotificationsOf(r, "irrigation_started") IN
         /\ Len(started) = 1
         /\ Contains(started[1].data.message.v,
                     <<"low", " ", "soil", " ", "moisture">>)

\* C4: the formatter never fails: for every kind, known or not, and every
\* details mapping, whichever fields are absent, it yields a message.
FormatterTotal ==
  \A i \in DOMAIN fOuts : ~fOuts[i].out.threw

ClockKinds == {"sensor_data_collected", "task_completed"}

EveryEventOneSms ==
  [][(StepNotify \/ ApiStatus) =>
       /\ added'["notifications"] = added["notifications"] + 1
       /\ Len(waiting'["notifications"]) = Len(waiting["notifications"]) + 1
       /\ SubSeq(waiting'["notifications"], 1, Len(waiting["notifications"]))
            = waiting["notifications"]
       /\ LET job == waiting'["notifications"][Len(waiting'["notifications"])]
          IN /\ job.name = "send-sms"
             /\ job.data.message =
                  S(renderNotification(job.data.type.v[1], job.data.data,
                                       clock).message)]_vars

\* a processor has emitted a notification and its send-sms job is waiting
ProcessorNotified ==
  \E i \in DOMAIN waiting["notifications"] :
    LET job == waiting["notifications"][i] IN
    /\ job.parent.queue # "webhook"
    /\ \E r \in active[job.parent.queue] :
         /\ r.job.id = job.parent.id
         /\ Len(EmittedOn(r, "notifications", "send-sms")) >= 1


\* the notifications of one kind that a run has emitted for one subject,
\* named by a field of the event
NotificationsAbout(r, kind, field, subject) ==
  SelectSeq(NotificationsOf(r, kind),
            LAMBDA e : Get(e.data.data, field) = subject)

\* C7: in a check-equipment-status job every item gets exactly what its
\* health band asks for: below 20 one equipment_failure alert and no
\* maintenance_required alert, from 20 and below 40 one maintenance_required
\* alert and no equipment_failure alert, from 40 on no alert.
EquipmentBands ==
  \A r \in Returned("maintenance", "check-equipment-status") :
    LET equipment == r.job.data.equipment.v IN
    \A i \in DOMAIN equipment :
      LET health == r.result.healthChecks.v[i].v
          name == S(replace(equipment[i].v, "-", " "))
          failures ==
            Len(NotificationsAbout(r, "equipment_failure", "equipment", name))
          maintenance ==
            Len(NotificationsAbout(r, "maintenance_required", "equipment", name))
      IN /\ health < 20 => failures = 1 /\ maintenance = 0
         /\ (20 <= health /\ health < 40) => failures = 0 /\ maintenance = 1
         /\ health >= 40 => failures = 0 /\ maintenance = 0

\* a check in which one item has failed, one is at the lower edge of the
\* maintenance band and one is at the lower edge of the healthy band
AllBandsInOneCheck ==
  \E r \in Returned("maintenance", "check-equipment-status") :
    /\ r.result.healthChecks.v = <<N(19), N(20), N(40)>>
    /\ Len(NotificationsOf(r, "equipment_failure")) = 1
    /\ Len(NotificationsOf(r, "maintenance_required")) = 1

NoCropAlertedTwice ==
  \A r \in active["market-data"] :
    \A i \in DOMAIN r.job.data.crops.v :
      Len(NotificationsAbout(r, "market_price_alert", "crop",
                             r.job.data.crops.v[i])) <= 1

\* with the maize threshold configured as 60, maize at 81 is both above the
\* threshold and above 0.7 times it, and has one alert
AlertedOnceAboveOverride ==
  \E r \in Returned("market-data", "fetch-market-prices") :
    /\ env["MAIZE_PRICE_ALERT_THRESHOLD"] = N(60)
    /\ r.result.prices.v[1] = N(81)
    /\ Len(NotificationsAbout(r, "market_price_alert", "crop",
                              S(<<"maize">>))) = 1

FailedJobEmittedNothing ==
  \A q \in Queues \ {"notifications"} :
    \A r \in active[q] : r.outcome = "threw" => r.emitted = <<>>


\* C12: within each queue, jobs are processed one at a time in arrival
\* order: no two jobs of one queue are active at once, whatever their job
\* types, and a job enqueued earlier starts before any job enqueued later on
\* that queue (every job that has started was enqueued before every job of
\* its queue that still waits, and the waiting jobs stand in arrival order).
OneJobAtATimeInOrder ==
  \A q \in Queues :
    /\ Cardinality({r \in active[q] : r.outcome = "running"}) <= 1
    /\ \A r \in active[q] : \A i \in DOMAIN waiting[q] :
         r.job.id < waiting[q][i].id
    /\ \A i, j \in DOMAIN waiting[q] :
         i < j => waiting[q][i].id < waiting[q][j].id


\* the jobs a step has put at the end of the waiting list of queue q, as
\* pairs of job name and payload
Seeded(q) ==
  [i \in 1..(Len(waiting'[q]) - Len(waiting[q])) |->
     [name |-> waiting'[q][Len(waiting[q]) + i].name,
      data |-> waiting'[q][Len(waiting[q]) + i].data]]

\* a step that answers 200 and whose only effect on the queues is to put
\* the jobs seeds, in that order, at the end of the waiting list of queue q
SeedsOnly(q, seeds) ==
  /\ http'.code = 200
  /\ Len(waiting'[q]) = Len(waiting[q]) + Len(seeds)
  /\ SubSeq(waiting'[q], 1, Len(waiting[q])) = waiting[q]
  /\ Seeded(q) = seeds
  /\ \A other \in Queues \ {q} : waiting'[other] = waiting[other]
  /\ UNCHANGED <<active, counts>>

\* C13: each domain trigger enqueues exactly its seed jobs and nothing else:
\* collect-sensor-data the three collectors on iot-sensors, in the order
\* soil moisture, weather, crop health, each for farm-001; irrigation-check
\* one assess-irrigation-needs job with zones zone-a, zone-b, zone-c;
\* market-prices one fetch-market-prices job; maintenance-check one
\* check-equipment-status job; no other queue receives a job.
TriggersEnqueueSeeds ==
  [][ /\ CollectSensorData =>
           SeedsOnly("iot-sensors",
             <<[name |-> "collect-soil-moisture",
                data |-> [farmId |-> S(<<"farm-001">>),
                          sensorType |-> S(<<"soil_moisture">>)]],
               [name |-> "collect-weather-data",
                data |-> [farmId |-> S(<<"farm-001">>),
                          sensorType |-> S(<<"weather">>)]],
               [name |-> "collect-crop-health",
                data |-> [farmId |-> S(<<"farm-001">>),
                          sensorType |-> S(<<"crop_health">>)]]>>)
      /\ IrrigationCheck =>
           SeedsOnly("irrigation",
             <<[name |-> "assess-irrigation-needs",
                data |-> [farmId |-> S(<<"farm-001">>),
                          zones |-> Arr(<<S(<<"zone-a">>), S(<<"zone-b">>),
                                          S(<<"zone-c">>)>>)]]>>)
      /\ MarketPrices =>
           /\ \E data \in {waiting'["market-data"][
                             Len(waiting'["market-data"])].data} :
                SeedsOnly("market-data",
                  <<[name |-> "fetch-market-prices", data |-> data]>>)
      /\ MaintenanceCheck =>
           /\ \E data \in {waiting'["maintenance"][
                             Len(waiting'["maintenance"])].data} :
                SeedsOnly("maintenance",
                  <<[name |-> "check-equipment-status", data |-> data]>>)
    ]_vars

\* the three collectors are waiting on iot-sensors in the order in which
\* the trigger enqueued them
CollectorsSeeded ==
  /\ Len(waiting["iot-sensors"]) = 3
  /\ [i \in 1..3 |-> waiting["iot-sensors"][i].name] =
       <<"collect-soil-moisture", "collect-weather-data",
         "collect-crop-health">>
  /\ \A i \in 1..3 : waiting["iot-sensors"][i].parent = Webhook


\* a request body of the SMS test is well formed when each field it
\* supplies is a string
WellFormed(body) ==
  \A f \in DOMAIN body : body[f] = Undef \/ body[f].t = "string"

\* C14: a trigger call with a malformed payload is answered with a client
\* error (a 4xx status) and enqueues no job on any queue.
MalformedPayloadRejected ==
  [][ \A body \in TestSmsBodies :
        (~WellFormed(body) /\ TestSmsRequest(body)) =>
          /\ http'.code \in 400..499
          /\ UNCHANGED <<waiting, added>>
    ]_vars

Below(readings, limit) ==
  Cardinality({i \in DOMAIN readings : readings[i] < limit})

\* C15: every rule compares against the configured override whenever one is
\* configured, 0 included, and against its default otherwise, and the value
\* is a number: soil_moisture_low on the collection path (default 30) and
\* on the assessment path (default 35), temperature_high (default 35),
\* humidity_low (default 40) and the price alert of each crop (default
\* base price + 10).
ThresholdResolution ==
  /\ \A r \in Returned("iot-sensors", "collect-soil-moisture") :
       Len(EmittedOn(r, "irrigation", "start-irrigation")) =
         IF r.result.moistureLevel.v
              < Resolve("SOIL_MOISTURE_LOW_THRESHOLD", 30) THEN 1 ELSE 0
  /\ \A r \in Returned("irrigation", "assess-irrigation-needs") :
       Len(EmittedOn(r, "irrigation", "start-irrigation")) =
         Below(r.drawn, Resolve("SOIL_MOISTURE_LOW_THRESHOLD", 35))
  /\ \A r \in Returned("iot-sensors", "collect-weather-data") :
       /\ Len(NotificationsAbout(r, "weather_warning", "warning",
                                 S(<<"High temperature alert">>))) =
            IF r.result.temperature.v
                 > Resolve("TEMPERATURE_HIGH_THRESHOLD", 35) THEN 1 ELSE 0
       /\ Len(NotificationsAbout(r, "weather_warning", "warning",
                                 S(<<"Low humidity alert">>))) =
            IF r.result.humidity.v
                 < Resolve("HUMIDITY_LOW_THRESHOLD", 40) THEN 1 ELSE 0
  /\ \A r \in Returned("market-data", "fetch-market-prices") :
       \A i \in DOMAIN r.job.data.crops.v :
         LET crop == r.job.data.crops.v[i]
             t == Resolve(thresholdKey(crop), basePrice(crop) + 10)
             alerts == NotificationsAbout(r, "market_price_alert", "crop", crop)
         IN /\ \A k \in DOMAIN alerts : alerts[k].data.data.threshold = N(t)
            /\ r.result.prices.v[i].v > t => Len(alerts) = 1

\* C17: a collect-weather-data job emits the weather_warning "High
\* temperature alert" exactly when its temperature is above the resolved
\* temperature_high threshold (default 35) and the weather_warning "Low
\* humidity alert" exactly when its humidity is below the resolved
\* humidity_low threshold (default 40), each check on its own; it emits
\* nothing else, so between zero and two notifications and no follow-up job.
WeatherWarningRule ==
  \A r \in Returned("iot-sensors", "collect-weather-data") :
    LET high == NotificationsAbout(r, "weather_warning", "warning",
                                   S(<<"High temperature alert">>))
        low == NotificationsAbout(r, "weather_warning", "warning",
                                  S(<<"Low humidity alert">>))
    IN /\ Len(high) = IF r.result.temperature.v
                           > Resolve("TEMPERATURE_HIGH_THRESHOLD", 35)
                      THEN 1 ELSE 0
       /\ Len(low) = IF r.result.humidity.v
                          < Resolve("HUMIDITY_LOW_THRESHOLD", 40)
                     THEN 1 ELSE 0
       /\ Len(r.emitted) = Len(high) + Len(low)

\* C18: an assess-irrigation-needs job enqueues exactly one start-irrigation
\* follow-up for each zone of its list whose reading is below the resolved
\* soil_moisture_low threshold (default 35) and none for the other zones,
\* and then exactly one task_completed summary whose zonesChecked is the
\* length of the list and whose zonesNeedingIrrigation is the number of
\* follow-ups enqueued.
AssessmentRule ==
  \A r \in Returned("irrigation", "assess-irrigation-needs") :
    LET zones == r.job.data.zones.v
        t == Resolve("SOIL_MOISTURE_LOW_THRESHOLD", 35)
        followUps == EmittedOn(r, "irrigation", "start-irrigation")
        summaries == NotificationsOf(r, "task_completed")
    IN /\ \A i \in DOMAIN zones :
            Len(SelectSeq(followUps, LAMBDA e : e.data.zone = zones[i])) =
              IF r.drawn[i] < t THEN 1 ELSE 0
       /\ Len(followUps) = Below(r.drawn, t)
       /\ Len(summaries) = 1
       /\ r.emitted[Len(r.emitted)] = summaries[1]
       /\ Len(r.emitted) = Len(followUps) + 1
       /\ summaries[1].data.data.zonesChecked = N(Len(zones))
       /\ summaries[1].data.data.zonesNeedingIrrigation = N(Len(followUps))


\* C19: every check-equipment-status job that completes has emitted exactly
\* one task_completed summary, whatever the health values, and the
\* alertsGenerated of the summary is the number of equipment_failure plus
\* maintenance_required notifications of the job, which has emitted nothing
\* else: its notifications number the alerts plus one.
EquipmentSummary ==
  \A r \in Returned("maintenance", "check-equipment-status") :
    LET summaries == NotificationsOf(r, "task_completed")
        alerts == Len(NotificationsOf(r, "equipment_failure"))
                  + Len(NotificationsOf(r, "maintenance_required"))
    IN /\ Len(summaries) = 1
       /\ summaries[1].data.data.alertsGenerated = N(alerts)
       /\ Len(r.emitted) = alerts + 1
       /\ Len(EmittedOn(r, "notifications", "send-sms")) = Len(r.emitted)

\* a check in which every item raised an alert, two of them failures, and
\* the summary reports three
ThreeAlertsSummarised ==
  \E r \in Returned("maintenance", "check-equipment-status") :
    /\ r.result.healthChecks.v = <<N(19), N(39), N(19)>>
    /\ Len(NotificationsOf(r, "task_completed")) = 1
    /\ NotificationsOf(r, "task_completed")[1].data.data.alertsGenerated = N(3)

\* C20: every fetch-market-prices job that completes has emitted exactly
\* one task_completed summary, also when no crop raised an alert, and the
\* number of alerts in its status text, like alerts_sent in the result of
\* the job, is the number of market_price_alert notifications of the job.
MarketSummary ==
  \A r \in Returned("market-data", "fetch-market-prices") :
    LET summaries == NotificationsOf(r, "task_completed")
        alerts == Len(NotificationsOf(r, "market_price_alert"))
    IN /\ Len(summaries) = 1
       /\ summaries[1].data.data.status =
            S(<<"Checked ", ToString(Len(r.job.data.crops.v)), " crops, ",
                ToString(alerts), " alerts">>)
       /\ r.result.alerts_sent = N(alerts)
       /\ Len(r.emitted) = alerts + 1

\* a price update in which no crop raised an alert and the summary was sent
SummaryWithoutAlerts ==
  \E r \in Returned("market-data", "fetch-market-prices") :
    /\ r.result.alerts_sent = N(0)
    /\ Len(NotificationsOf(r, "market_price_alert")) = 0
    /\ Len(NotificationsOf(r, "task_completed")) = 1

\* the token sequence toks ends with the token sequence tail
EndsWith(toks, tail) ==
  /\ Len(toks) >= Len(tail)
  /\ SubSeq(toks, Len(toks) - Len(tail) + 1, Len(toks)) = tail

StartIrrigationLevels ==
  \A r \in Returned("irrigation", "start-irrigation") :
    LET given == Get(r.job.data, "moistureLevel")
        done == NotificationsOf(r, "irrigation_completed")
    IN /\ Len(r.emitted) = 1
       /\ Len(done) = 1
       /\ LET details == done[1].data.data IN
          /\ given # Undef => details.beforeLevel = given
          /\ given = Undef => details.beforeLevel.v \in 20..59
          /\ details.afterLevel.v - details.beforeLevel.v \in 20..49

\* C23: a collect-soil-moisture job emits an irrigation_started notification
\* if and only if it emits a start-irrigation follow-up, and the notification
\* carries the farmId, the zone (zone-a), the reason (low_soil_moisture) and
\* the moistureLevel of that follow-up.
IrrigationStartedMatchesFollowUp ==
  \A r \in Returned("iot-sensors", "collect-soil-moisture") :
    LET started == NotificationsOf(r, "irrigation_started")
        followUps == EmittedOn(r, "irrigation", "start-irrigation")
    IN /\ Len(started) = Len(followUps)
       /\ Len(started) <= 1
       /\ Len(started) = 1 =>
            LET told == started[1].data.data
                asked == followUps[1].data
            IN /\ told.farmId = asked.farmId
               /\ told.zone = asked.zone
               /\ told.zone = S(<<"zone-a">>)
               /\ told.reason = asked.reason
               /\ told.reason = S(<<"low", "_", "soil", "_", "moisture">>)
               /\ told.moistureLevel = asked.moistureLevel

\* C23 witness: a soil-moisture job that read 10 has returned after one
\* follow-up and one irrigation_started notification.
FollowUpAnnounced ==
  \E r \in Returned("iot-sensors", "collect-soil-moisture") :
    /\ r.result.moistureLevel = N(10)
    /\ Len(EmittedOn(r, "irrigation", "start-irrigation")) = 1
    /\ Len(NotificationsOf(r, "irrigation_started")) = 1

\* the jobs of queue q that are not finished, in the order of delivery: the
\* jobs in execution, which left the waiting list first, then the waiting
\* list.  Used for queues with one worker.
Pending(q) ==
  (IF active[q] = {} THEN <<>>
   ELSE <<(CHOOSE r \in active[q] : TRUE).job>>) \o waiting[q]

\* the place of a notification of a check-equipment-status job in the order
\* of the processor: failure alerts, maintenance alerts, summary
AlertRank(type) ==
  CASE type = S(<<"equipment_failure">>) -> 1
    [] type = S(<<"maintenance_required">>) -> 2
    [] OTHER -> 3

\* the place of a zone in the zones of the irrigation-check payload
ZoneRank(zone) ==
  CASE zone = S(<<"zone-a">>) -> 1
    [] zone = S(<<"zone-b">>) -> 2
    [] OTHER -> 3

\* C24: the effects of one job reach the queues in the order the processor
\* produced them: the SMS jobs of a check-equipment-status job are enqueued
\* failure alerts first, then maintenance alerts, then the summary; the
\* start-irrigation follow-ups of an assess-irrigation-needs job are enqueued
\* in the order of the input zones and its summary after all of them; and the
\* notifications queue hands its jobs to the adapter one at a time in the
\* order in which they were enqueued.
EffectsInProcessorOrder ==
  /\ \A r \in active["maintenance"] :
       \A i, j \in 1..Len(r.emitted) :
         i < j => AlertRank(r.emitted[i].data.type)
                    <= AlertRank(r.emitted[j].data.type)
  /\ \A r \in active["irrigation"] :
       r.job.name = "assess-irrigation-needs" =>
         \A i, j \in 1..Len(r.emitted) :
           i < j => /\ r.emitted[i].name = "start-irrigation"
                    /\ r.emitted[j].name = "start-irrigation" =>
                         ZoneRank(r.emitted[i].data.zone)
                           < ZoneRank(r.emitted[j].data.zone)
  /\ \A i, j \in 1..Len(waiting["irrigation"]) :
       LET a == waiting["irrigation"][i]
           b == waiting["irrigation"][j]
       IN (i < j /\ a.parent = b.parent /\ a.parent.queue = "irrigation")
            => ZoneRank(a.data.zone) < ZoneRank(b.data.zone)
  /\ Cardinality(active["notifications"]) <= 1
  /\ LET sms == Pending("notifications") IN
     \A i, j \in 1..Len(sms) :
       i < j =>
         /\ sms[i].id < sms[j].id
         /\ (sms[i].parent = sms[j].parent
             /\ sms[i].parent.queue = "maintenance")
              => AlertRank(sms[i].data.type) <= AlertRank(sms[j].data.type)

\* C24 witness: a check that found the first item due for maintenance and
\* the second failed has returned, and its failure alert, maintenance alert
\* and summary are the jobs of the notifications queue, in that order.
AlertsQueuedInOrder ==
  \E r \in Returned("maintenance", "check-equipment-status") :
    /\ r.result.healthChecks.v = <<N(39), N(19), N(40)>>
    /\ Len(Pending("notifications")) = 3
    /\ [i \in 1..3 |-> Pending("notifications")[i].data.type]
         = <<S(<<"equipment_failure">>), S(<<"maintenance_required">>),
             S(<<"task_completed">>)>>
    /\ \A i \in 1..3 :
         Pending("notifications")[i].parent = Self("maintenance", r)

\* C25: for a collect-soil-moisture job that emits a start-irrigation
\* follow-up, the irrigation_started SMS job is enqueued on the notifications
\* queue before the irrigation_completed SMS job of that follow-up, in every
\* interleaving of the iot-sensors and irrigation consumers: once the
\* follow-up has enqueued its irrigation_completed notification, the job it
\* came from has enqueued its irrigation_started notification.
StartedBeforeCompleted ==
  \A r \in active["iot-sensors"] : \A f \in active["irrigation"] :
    ( /\ f.job.name = "start-irrigation"
      /\ f.job.parent = Self("iot-sensors", r)
      /\ Len(NotificationsOf(f, "irrigation_completed")) = 1 )
      => Len(NotificationsOf(r, "irrigation_started")) = 1

\* C27: with no threshold configured, a collect-weather-data job never emits
\* a notification: the simulated temperature (20 up to 35) never exceeds 35
\* and the simulated humidity (40 up to 80) is never below 40.
WeatherSilentByDefault ==
  env = NoOverrides =>
    \A r \in active["iot-sensors"] :
      r.job.name = "collect-weather-data" =>
        /\ r.emitted = <<>>
        /\ r.todo = <<>>
        /\ r.outcome = "returned"

\* C27 witness: with no threshold configured, a weather job that drew the
\* highest temperature and the lowest humidity sampled has returned.
WeatherExtremesCollected ==
  /\ env = NoOverrides
  /\ \E r \in Returned("iot-sensors", "collect-weather-data") :
       /\ r.result.temperature = N(34)
       /\ r.result.humidity = N(40)

\* C28: a call of the collect-sensor-data trigger enqueues either all three
\* collection jobs or none: when it answers the caller with an error, no job
\* of that call is on the iot-sensors queue.
SensorTriggerAllOrNothing ==
  [][(CollectSensorData \/ CollectSensorDataRefused) =>
       \/ /\ http'.code = 200
          /\ added'["iot-sensors"] = added["iot-sensors"] + 3
       \/ /\ http'.code # 200
          /\ UNCHANGED <<waiting, added>>]_vars

\* the numbers of jobs the processor of a waiting job may enqueue, over the
\* readings it may draw
PlanSizes(job) ==
  CASE job.name = "send-sms" -> {0}
    [] job.name = "start-irrigation" ->
         {Enqueues(startIrrigation(job, simulated, improvement).todo) :
            simulated \in SimulatedBefore, improvement \in Improvements}
    [] job.name = "assess-irrigation-needs" ->
         {Enqueues(assessIrrigationNeeds(job, readings).todo) :
            readings \in [1..Len(job.data.zones.v) -> ZoneReadings]}
    [] OTHER -> {1}

\* no job is in execution, and a job that is still waiting is kept from
\* starting by the job budget MaxJobs alone
Settled ==
  \A q \in Queues :
    /\ active[q] = {}
    /\ waiting[q] # <<>> =>
         \A size \in PlanSizes(Head(waiting[q])) : TotalAdded + size > MaxJobs

\* the calls a run has made and has still to make that enqueue a job
Effects(r) ==
  r.emitted \o SelectSeq(r.todo, LAMBDA e : e.op \in {"add", "notify"})

IsSms(e) ==
  \/ "op" \in DOMAIN e /\ e.op = "notify"
  \/ "op" \notin DOMAIN e /\ e.queue = "notifications" /\ e.name = "send-sms"

IsFollowUp(e) ==
  /\ "op" \in DOMAIN e => e.op = "add"
  /\ e.queue = "irrigation"
  /\ e.name = "start-irrigation"

\* the follow-up relation: send-sms enqueues nothing, start-irrigation
\* enqueues one send-sms, any other job is a seed of a trigger and enqueues
\* start-irrigation and send-sms jobs only
FollowUpsAcyclic ==
  \A q \in Queues :
    /\ \A r \in active[q] :
         CASE r.job.name = "send-sms" -> Effects(r) = <<>>
           [] r.job.name = "start-irrigation" ->
                /\ Len(Effects(r)) = 1
                /\ IsSms(Effects(r)[1])
           [] OTHER ->
                /\ r.job.parent = Webhook
                /\ \A i \in 1..Len(Effects(r)) :
                     IsSms(Effects(r)[i]) \/ IsFollowUp(Effects(r)[i])
    /\ \A i \in 1..Len(waiting[q]) :
         waiting[q][i].name \notin {"send-sms", "start-irrigation"}
           => waiting[q][i].parent = Webhook

====
